---- MODULE Spec2Model ----
(***************************************************************************)
(* Model of the stock report program (main.py, with the shared functions   *)
(* of app.py): the fee-aware lot sizer, the verdict engine, the target     *)
(* message derivation and the sequential per-ticker pipeline of main().    *)
(*                                                                         *)
(* Numbers.  Prices, moving averages and targets are integers counting     *)
(* hundredths of the currency unit (sen), so price_per_unit * 100 * lots   *)
(* in currency units is the integer price * lots.  Percentages and other   *)
(* quotients are exact fractions [num |-> n, den |-> d]; the program       *)
(* computes the same quotients in binary floating point.                   *)
(* Python's None is the empty tuple <<>>, a present value v is <<v>>.      *)
(***************************************************************************)
EXTENDS Integers, Sequences, FiniteSets, TLC

VARIABLES
    \* --- main(): the pipeline ---
    pc,                 \* position of main()
    tickers,            \* config.get('tickers', [])
    idx,                \* position of the first loop in tickers
    info_result,        \* (name, div_yield, currency) of the current ticker
    df,                 \* the frame fetch_data returned for the current ticker
    portfolio_analysis, \* the list of stats records
    ridx,               \* position of the report loop in portfolio_analysis
    printed,            \* the report blocks printed so far
    inputs,             \* what the data provider answered, per processed ticker
    \* --- calculate_min_lots applied to one input ---
    lot_pc, lot_ticker, lot_price, lot_result,
    \* --- generate_long_term_verdict and the target message on one input ---
    v_pc, v_snap, v_out, v_msg

vars == <<pc, tickers, idx, info_result, df, portfolio_analysis, ridx, printed,
          inputs, lot_pc, lot_ticker, lot_price, lot_result,
          v_pc, v_snap, v_out, v_msg>>

mainVars == <<pc, tickers, idx, info_result, df, portfolio_analysis, ridx,
              printed, inputs>>
lotVars == <<lot_pc, lot_ticker, lot_price, lot_result>>
verdictVars == <<v_pc, v_snap, v_out, v_msg>>

-----------------------------------------------------------------------------
(* Bounds of the model *)

MaxTickers == 2     \* longest configured ticker list
MaxPrice == 2000    \* largest unit price given to the lot sizer, in sen
MaxVal == 3         \* largest price / sma50 / sma200 given to the verdict engine
MaxRsi == 100       \* largest rsi given to the verdict engine

(* Program constants *)

MinBars == 200      \* analyze_stock: len(df) < 200
LotsStop == 100     \* calculate_min_lots: range(1, 100)
RsiLow == 55        \* generate_long_term_verdict: rsi < 55
RsiHigh == 70       \* generate_long_term_verdict: rsi > 70

-----------------------------------------------------------------------------
(* Values *)

None == <<>>
Some(v) == <<v>>

Frac(n, d) == [num |-> n, den |-> d]

\* a < 1.0, for a fraction with a positive denominator
FracBelowOne(a) == a.num < a.den

\* a = b as numbers
FracEq(a, b) ==
    IF a.den = b.den THEN a.num = b.num ELSE a.num * b.den = b.num * a.den

\* str.endswith
EndsWith(s, suffix) ==
    /\ Len(s) >= Len(suffix)
    /\ SubSeq(s, Len(s) - Len(suffix) + 1, Len(s)) = suffix

DotKL == <<".", "K", "L">>
DotHK == <<".", "H", "K">>

TickerMY == <<"1", "1", "5", "5", ".", "K", "L">>
TickerHK == <<"0", "7", "0", "0", ".", "H", "K">>
TickerUS == <<"A", "A", "P", "L">>
TickerBare == <<"K", "L">>

Tickers == {TickerMY, TickerHK, TickerUS}

-----------------------------------------------------------------------------
(* calculate_min_lots *)

\* total_value = price_per_unit * 100 * lots, in currency units
TotalValue(price, lots) == price * lots

\* math.ceil(total_value / 1000)
CeilDiv1000(v) == (v + 999) \div 1000

StampDutyRate5(total_value) ==
    LET stamp_duty == 5 * CeilDiv1000(total_value)
    IN  IF stamp_duty < 1 THEN 1 ELSE stamp_duty

\* stamp_duty = math.ceil(total_value / 1000); if stamp_duty < 1: stamp_duty = 1
StampDuty(total_value) ==
    LET stamp_duty == CeilDiv1000(total_value)
    IN  IF stamp_duty < 1 THEN 1 ELSE stamp_duty

\* fee_percentage = (total_fee / total_value) * 100 with
\* total_fee = 3.00 + stamp_duty + total_value * 0.0003, so
\* fee_percentage = (30000 + 10000 * stamp_duty + 3 * total_value) / (100 * total_value)
FeePercentage(total_value) ==
    Frac(30000 + 10000 * StampDuty(total_value) + 3 * total_value,
         100 * total_value)

FallbackComputedAtOne(price) ==
    [lots |-> 1, cost |-> TotalValue(price, 1),
     fee_pct |-> FeePercentage(TotalValue(price, 1))]

\* return {'lots': 1, 'cost': price_per_unit*100, 'fee_pct': 100}
Fallback(price) ==
    [lots |-> 1, cost |-> price, fee_pct |-> Frac(100, 1)]

RECURSIVE ScanLastPassing(_, _)
ScanLastPassing(price, lots) ==
    IF lots < 1
    THEN Fallback(price)
    ELSE IF FracBelowOne(FeePercentage(TotalValue(price, lots)))
         THEN [lots |-> lots, cost |-> TotalValue(price, lots),
               fee_pct |-> FeePercentage(TotalValue(price, lots))]
         ELSE ScanLastPassing(price, lots - 1)

RECURSIVE ScanFrom(_, _)
\* for lots in range(1, 100): ... if fee_percentage < 1.0: return {...}
\* (the loop from its iteration `lots` on)
ScanFrom(price, lots) ==
    IF lots >= LotsStop
    THEN Fallback(price)
    ELSE IF FracBelowOne(FeePercentage(TotalValue(price, lots)))
         THEN [lots |-> lots, cost |-> TotalValue(price, lots),
               fee_pct |-> FeePercentage(TotalValue(price, lots))]
         ELSE ScanFrom(price, lots + 1)

LotsDescending(price, ticker) ==
    IF ~EndsWith(ticker, DotKL)
    THEN None
    ELSE Some(ScanLastPassing(price, LotsStop - 1))

\* calculate_min_lots(price_per_unit, ticker)
calculate_min_lots(price, ticker) ==
    IF ~EndsWith(ticker, DotKL)
    THEN None
    ELSE Some(ScanFrom(price, 1))

-----------------------------------------------------------------------------
(* get_stock_info *)

\* Python truthiness of an optional number / an optional string
TruthyNum(x) == x # None /\ x[1] # 0
TruthyStr(x) == x # None /\ x[1] # <<>>

\* a or b
OrElse(a, b, truthy) == IF truthy THEN a ELSE b

\* name = f"{long_name} - {short_name}" if both exist and differ,
\* else long_name or short_name or ticker
NameOf(info, ticker) ==
    LET long_name == info.longName
        short_name == info.shortName
    IN  IF TruthyStr(long_name) /\ TruthyStr(short_name) /\ long_name # short_name
        THEN long_name[1] \o <<" - ">> \o short_name[1]
        ELSE IF TruthyStr(long_name) THEN long_name[1]
        ELSE IF TruthyStr(short_name) THEN short_name[1]
        ELSE ticker

CurrencyOf(ticker) ==
    IF EndsWith(ticker, DotKL) THEN "RM"
    ELSE IF EndsWith(ticker, DotHK) THEN "HKD"
    ELSE "USD"

\* dividendRate, currentPrice, previousClose in sen; dividendYield in hundredths
YieldOf(info) ==
    LET div_rate == info.dividendRate
        current_price == OrElse(info.currentPrice, info.previousClose,
                                TruthyNum(info.currentPrice))
    IN  IF TruthyNum(div_rate) /\ TruthyNum(current_price) /\ current_price[1] > 0
        THEN Frac(div_rate[1] * 100, current_price[1])
        ELSE LET raw_yield == info.dividendYield
             IN  IF raw_yield = None THEN Frac(0, 1)
                 ELSE IF raw_yield[1] < 100 THEN Frac(raw_yield[1], 1)
                 ELSE Frac(raw_yield[1], 100)

InfoFailureKeepsCurrency(ticker, lookup) ==
    IF lookup = None
    THEN [name |-> ticker, div_yield |-> Frac(0, 1), currency |-> CurrencyOf(ticker)]
    ELSE [name |-> NameOf(lookup[1], ticker),
          div_yield |-> YieldOf(lookup[1]),
          currency |-> CurrencyOf(ticker)]

\* get_stock_info(ticker); lookup is what yf.Ticker(ticker).info gave:
\* None when it raised, else the info dictionary
get_stock_info(ticker, lookup) ==
    IF lookup = None
    THEN [name |-> ticker, div_yield |-> Frac(0, 1), currency |-> "N/A"]
    ELSE [name |-> NameOf(lookup[1], ticker),
          div_yield |-> YieldOf(lookup[1]),
          currency |-> CurrencyOf(ticker)]

-----------------------------------------------------------------------------
(* analyze_stock *)

\* analyze_stock(df); frame.latest is df.iloc[-1] with the indicator columns
\* the ta library computed
analyze_stock(frame) ==
    IF frame.len < MinBars
    THEN None
    ELSE LET latest == frame.latest[1]
         IN  Some([price |-> latest.Close, rsi |-> latest.RSI,
                   sma50 |-> latest.SMA_50, sma200 |-> latest.SMA_200,
                   volume_strong |-> latest.Volume * 10 > latest.Vol_Avg * 12])

-----------------------------------------------------------------------------
(* generate_long_term_verdict *)

STRONG_BUY_DISCOUNT == "STRONG BUY (Discount)"
HOLD_OVERHEATED == "HOLD / WAIT (Overheated)"
BUY_HIGH_MOMENTUM == "BUY (High Momentum)"
BUY_ACCUMULATE == "BUY / ACCUMULATE"
AVOID_SELL == "AVOID / SELL"
CAUTION_TREND_TESTING == "CAUTION (Trend Testing)"

Verdict(category, target_price) ==
    [category |-> category, verdict |-> "", target_price |-> target_price]

VerdictBearByPrice(stock_data) ==
    LET price == stock_data.price
        sma50 == stock_data.sma50
        sma200 == stock_data.sma200
        rsi == stock_data.rsi
        vol_strong == stock_data.volume_strong
        is_bull_market == sma50 > sma200
        is_price_healthy == price > sma200
    IN  IF is_bull_market /\ is_price_healthy
        THEN IF rsi < RsiLow THEN Verdict(STRONG_BUY_DISCOUNT, price)
             ELSE IF rsi > RsiHigh THEN Verdict(HOLD_OVERHEATED, sma50)
             ELSE IF vol_strong THEN Verdict(BUY_HIGH_MOMENTUM, price)
             ELSE Verdict(BUY_ACCUMULATE, price)
        ELSE IF ~is_price_healthy THEN Verdict(AVOID_SELL, 0)
        ELSE Verdict(CAUTION_TREND_TESTING, sma200)

VerdictStrictBand(stock_data) ==
    LET price == stock_data.price
        sma50 == stock_data.sma50
        sma200 == stock_data.sma200
        rsi == stock_data.rsi
        vol_strong == stock_data.volume_strong
        is_bull_market == sma50 > sma200
        is_price_healthy == price > sma200
    IN  IF is_bull_market /\ is_price_healthy
        THEN IF rsi <= RsiLow THEN Verdict(STRONG_BUY_DISCOUNT, price)
             ELSE IF rsi >= RsiHigh THEN Verdict(HOLD_OVERHEATED, sma50)
             ELSE IF vol_strong THEN Verdict(BUY_HIGH_MOMENTUM, price)
             ELSE Verdict(BUY_ACCUMULATE, price)
        ELSE IF ~is_bull_market THEN Verdict(AVOID_SELL, 0)
        ELSE Verdict(CAUTION_TREND_TESTING, sma200)

VerdictCautionNoTarget(stock_data) ==
    LET price == stock_data.price
        sma50 == stock_data.sma50
        sma200 == stock_data.sma200
        rsi == stock_data.rsi
        vol_strong == stock_data.volume_strong
        is_bull_market == sma50 > sma200
        is_price_healthy == price > sma200
    IN  IF is_bull_market /\ is_price_healthy
        THEN IF rsi < RsiLow THEN Verdict(STRONG_BUY_DISCOUNT, price)
             ELSE IF rsi > RsiHigh THEN Verdict(HOLD_OVERHEATED, sma50)
             ELSE IF vol_strong THEN Verdict(BUY_HIGH_MOMENTUM, price)
             ELSE Verdict(BUY_ACCUMULATE, price)
        ELSE IF ~is_bull_market THEN Verdict(AVOID_SELL, 0)
        ELSE Verdict(CAUTION_TREND_TESTING, 0)

\* generate_long_term_verdict(stock_data)
generate_long_term_verdict(stock_data) ==
    LET price == stock_data.price
        sma50 == stock_data.sma50
        sma200 == stock_data.sma200
        rsi == stock_data.rsi
        vol_strong == stock_data.volume_strong
        is_bull_market == sma50 > sma200
        is_price_healthy == price > sma200
    IN  IF is_bull_market /\ is_price_healthy
        THEN IF rsi < RsiLow THEN Verdict(STRONG_BUY_DISCOUNT, price)
             ELSE IF rsi > RsiHigh THEN Verdict(HOLD_OVERHEATED, sma50)
             ELSE IF vol_strong THEN Verdict(BUY_HIGH_MOMENTUM, price)
             ELSE Verdict(BUY_ACCUMULATE, price)
        ELSE IF ~is_bull_market THEN Verdict(AVOID_SELL, 0)
        ELSE Verdict(CAUTION_TREND_TESTING, sma200)

-----------------------------------------------------------------------------
(* The report's target line and suggestion *)

WAIT == "Wait for"
BUY_NOW == "BUY NOW"
NO_ENTRY == "NO ENTRY"

Message(kind, args) == [kind |-> kind, args |-> args]

TargetStrNonStrict(price, target, curr) ==
    IF target > 0 /\ price >= target
    THEN Message(WAIT, [curr |-> curr, target |-> target,
                        discount |-> Frac((price - target) * 100, price)])
    ELSE IF target > 0 THEN Message(BUY_NOW, None)
    ELSE Message(NO_ENTRY, None)

\* target_str: the values the f-string formats are kept unformatted
\* (target is printed with 3 decimals, discount with 1)
TargetStr(price, target, curr) ==
    IF target > 0 /\ price > target
    THEN Message(WAIT, [curr |-> curr, target |-> target,
                        discount |-> Frac((price - target) * 100, price)])
    ELSE IF target > 0 THEN Message(BUY_NOW, None)
    ELSE Message(NO_ENTRY, None)

BUY_LOTS == "Buy Lots"
BUY_UNIT == "Buy 1 Unit"

\* the SUGGESTION lines: None when nothing is printed
Suggestion(lots_data, target, curr, price) ==
    IF lots_data # None
    THEN IF target > 0
         THEN Some([kind |-> BUY_LOTS, lots |-> lots_data[1].lots, curr |-> curr,
                    cost |-> lots_data[1].cost, fee_pct |-> lots_data[1].fee_pct])
         ELSE None
    ELSE IF target > 0
         THEN Some([kind |-> BUY_UNIT, lots |-> 0, curr |-> curr,
                    cost |-> price, fee_pct |-> Frac(0, 1)])
         ELSE None

\* the block the report loop prints for one item of portfolio_analysis
ReportBlock(item) ==
    LET a == item.analysis
        price == item.price
        target == a.target_price
        curr == item.currency
    IN  [ticker |-> item.ticker, name |-> item.name, curr |-> curr,
         price |-> price, div_yield |-> item.div_yield, rsi |-> item.rsi,
         vol_msg |-> IF item.volume_strong THEN "HIGH" ELSE "Normal",
         trend_icon |-> IF item.sma50 > item.sma200 THEN "GOLDEN" ELSE "DEATH",
         sma50 |-> item.sma50, sma200 |-> item.sma200,
         category |-> a.category,
         target_str |-> TargetStr(price, target, curr),
         suggestion |-> Suggestion(item.smart_lots, target, curr, price)]

-----------------------------------------------------------------------------
(* What the data provider can answer *)

\* yf.Ticker(ticker).info: None when the lookup raises
InfoOutcomes ==
    { None,
      Some([longName |-> Some(<<"Malayan Banking Berhad">>),
            shortName |-> Some(<<"MAYBANK">>),
            dividendRate |-> Some(60), currentPrice |-> None,
            previousClose |-> Some(1200), dividendYield |-> Some(6)]) }

\* df.iloc[-1] of a frame with at least 200 bars
LatestRows ==
    { [Close |-> 4, RSI |-> 50, SMA_50 |-> 3, SMA_200 |-> 2,
       Volume |-> 10, Vol_Avg |-> 10],
      [Close |-> 1000, RSI |-> 75, SMA_50 |-> 900, SMA_200 |-> 800,
       Volume |-> 13, Vol_Avg |-> 10],
      [Close |-> 50, RSI |-> 60, SMA_50 |-> 40, SMA_200 |-> 45,
       Volume |-> 12, Vol_Avg |-> 10] }

\* yf.download: an empty frame (also when it raises), a frame too short to
\* analyse, or a frame with its latest row
FetchOutcomes ==
    { [len |-> n, latest |-> None] : n \in {0, 150, 199} }
    \cup { [len |-> 200, latest |-> Some(r)] : r \in LatestRows }

SeqsUpTo(S, n) == UNION { [1..k -> S] : k \in 0..n }

-----------------------------------------------------------------------------
(* main() *)

LotIdle ==
    /\ lot_pc = "idle" /\ lot_ticker = <<>> /\ lot_price = 0 /\ lot_result = None
VerdictIdle ==
    /\ v_pc = "idle" /\ v_snap = None /\ v_out = None /\ v_msg = None
MainIdle ==
    /\ pc = "idle" /\ tickers = <<>> /\ idx = 0 /\ info_result = None
    /\ df = None /\ portfolio_analysis = <<>> /\ ridx = 0 /\ printed = <<>>
    /\ inputs = <<>>

Init ==
    /\ pc = "load" /\ tickers = <<>> /\ idx = 0 /\ info_result = None
    /\ df = None /\ portfolio_analysis = <<>> /\ ridx = 0 /\ printed = <<>>
    /\ inputs = <<>>
    /\ LotIdle /\ VerdictIdle

\* config = load_config(); if not config: return
ConfigMissing ==
    /\ pc = "load"
    /\ pc' = "returned"
    /\ UNCHANGED <<tickers, idx, info_result, df, portfolio_analysis, ridx,
                   printed, inputs>>
    /\ UNCHANGED <<lotVars, verdictVars>>

\* tickers = config.get('tickers', []); portfolio_analysis = []
LoadConfig ==
    /\ pc = "load"
    /\ \E t \in SeqsUpTo(Tickers, MaxTickers) :
          /\ tickers' = t
          /\ idx' = 1
          /\ pc' = IF Len(t) = 0 THEN "report" ELSE "info"
    /\ ridx' = 1
    /\ UNCHANGED <<info_result, df, portfolio_analysis, printed, inputs>>
    /\ UNCHANGED <<lotVars, verdictVars>>

\* name, div_yield, currency = get_stock_info(ticker)
GetStockInfo ==
    /\ pc = "info"
    /\ \E lookup \in InfoOutcomes :
          /\ info_result' = Some(get_stock_info(tickers[idx], lookup))
          /\ inputs' = Append(inputs, [lookup |-> lookup, frame |-> None])
    /\ pc' = "fetch"
    /\ UNCHANGED <<tickers, idx, df, portfolio_analysis, ridx, printed>>
    /\ UNCHANGED <<lotVars, verdictVars>>

\* df = fetch_data(ticker, period)
FetchData ==
    /\ pc = "fetch"
    /\ \E d \in FetchOutcomes :
          /\ df' = Some(d)
          /\ inputs' = [inputs EXCEPT ![idx].frame = Some(d)]
    /\ pc' = "analyze"
    /\ UNCHANGED <<tickers, idx, info_result, portfolio_analysis, ridx, printed>>
    /\ UNCHANGED <<lotVars, verdictVars>>

\* time.sleep(0.5) and the next iteration of the loop
NextTicker ==
    /\ idx' = idx + 1
    /\ pc' = IF idx = Len(tickers) THEN "report" ELSE "info"
    /\ UNCHANGED <<info_result, df>>

StatsPrepended(ticker, info, snapshot, list) ==
    <<snapshot @@
        [ticker |-> ticker, name |-> info.name, currency |-> info.currency,
         div_yield |-> info.div_yield,
         analysis |-> generate_long_term_verdict(snapshot),
         smart_lots |-> calculate_min_lots(snapshot.price, ticker)]>> \o list

\* stats[...] = ...; portfolio_analysis.append(stats)
StatsAppended(ticker, info, snapshot, list) ==
    Append(list,
        snapshot @@
        [ticker |-> ticker, name |-> info.name, currency |-> info.currency,
         div_yield |-> info.div_yield,
         analysis |-> generate_long_term_verdict(snapshot),
         smart_lots |-> calculate_min_lots(snapshot.price, ticker)])

\* if not df.empty: false
SkipEmpty ==
    /\ pc = "analyze"
    /\ df[1].len = 0
    /\ NextTicker
    /\ UNCHANGED <<tickers, portfolio_analysis, ridx, printed, inputs>>
    /\ UNCHANGED <<lotVars, verdictVars>>

\* stats = analyze_stock(df); if stats: false
SkipInsufficient ==
    /\ pc = "analyze"
    /\ df[1].len # 0
    /\ analyze_stock(df[1]) = None
    /\ NextTicker
    /\ UNCHANGED <<tickers, portfolio_analysis, ridx, printed, inputs>>
    /\ UNCHANGED <<lotVars, verdictVars>>

\* the body of "if stats:"
AppendStats ==
    /\ pc = "analyze"
    /\ df[1].len # 0
    /\ analyze_stock(df[1]) # None
    /\ portfolio_analysis' =
          StatsAppended(tickers[idx], info_result[1], analyze_stock(df[1])[1],
                        portfolio_analysis)
    /\ NextTicker
    /\ UNCHANGED <<tickers, ridx, printed, inputs>>
    /\ UNCHANGED <<lotVars, verdictVars>>

\* for item in portfolio_analysis: print the item's block
ReportItem ==
    /\ pc = "report"
    /\ ridx <= Len(portfolio_analysis)
    /\ printed' = Append(printed, ReportBlock(portfolio_analysis[ridx]))
    /\ ridx' = ridx + 1
    /\ UNCHANGED <<pc, tickers, idx, info_result, df, portfolio_analysis, inputs>>
    /\ UNCHANGED <<lotVars, verdictVars>>

\* print("Analysis Complete.")
Finish ==
    /\ pc = "report"
    /\ ridx > Len(portfolio_analysis)
    /\ pc' = "done"
    /\ UNCHANGED <<tickers, idx, info_result, df, portfolio_analysis, ridx,
                   printed, inputs>>
    /\ UNCHANGED <<lotVars, verdictVars>>

Next ==
    \/ ConfigMissing
    \/ LoadConfig
    \/ GetStockInfo
    \/ FetchData
    \/ SkipEmpty
    \/ SkipInsufficient
    \/ AppendStats
    \/ ReportItem
    \/ Finish

Spec == Init /\ [][Next]_vars

-----------------------------------------------------------------------------
(* calculate_min_lots on every price of the grid *)

LotTickers == Tickers \cup {TickerBare}

InitLots ==
    /\ lot_pc = "input"
    /\ lot_ticker \in LotTickers
    /\ lot_price \in 1..MaxPrice
    /\ lot_result = None
    /\ MainIdle /\ VerdictIdle

CallLots ==
    /\ lot_pc = "input"
    /\ lot_result' = calculate_min_lots(lot_price, lot_ticker)
    /\ lot_pc' = "returned"
    /\ UNCHANGED <<lot_ticker, lot_price>>
    /\ UNCHANGED <<mainVars, verdictVars>>

NextLots == CallLots

SpecLots == InitLots /\ [][NextLots]_vars

-----------------------------------------------------------------------------
(* generate_long_term_verdict and the target line on every snapshot of the grid *)

ExampleSnapshot ==
    [price |-> 108, rsi |-> 60, sma50 |-> 105, sma200 |-> 100,
     volume_strong |-> FALSE]

Snapshots ==
    [price : 0..MaxVal, rsi : 0..MaxRsi, sma50 : 0..MaxVal, sma200 : 0..MaxVal,
     volume_strong : BOOLEAN]
    \cup {ExampleSnapshot}

InitVerdict ==
    /\ v_pc = "input"
    /\ v_snap \in { Some(s) : s \in Snapshots }
    /\ v_out = None
    /\ v_msg = None
    /\ MainIdle /\ LotIdle

CallVerdict ==
    /\ v_pc = "input"
    /\ v_out' = Some(generate_long_term_verdict(v_snap[1]))
    /\ v_pc' = "verdict"
    /\ UNCHANGED <<v_snap, v_msg>>
    /\ UNCHANGED <<mainVars, lotVars>>

DeriveTargetStr ==
    /\ v_pc = "verdict"
    /\ v_msg' = Some(TargetStr(v_snap[1].price, v_out[1].target_price, "USD"))
    /\ v_pc' = "message"
    /\ UNCHANGED <<v_snap, v_out>>
    /\ UNCHANGED <<mainVars, lotVars>>

NextVerdict == CallVerdict \/ DeriveTargetStr

SpecVerdict == InitVerdict /\ [][NextVerdict]_vars

-----------------------------------------------------------------------------
(* The fee model as the specification states it, for a unit price p in sen *)
(* and a lot count L: tradeValue = p * 100 * L (in currency units p * L),  *)
(* totalFee = 3.00 + max(1, ceil(tradeValue / 1000)) + tradeValue * 0.0003 *)
(* and feePercent = totalFee / tradeValue * 100.                           *)

Max(a, b) == IF a >= b THEN a ELSE b

Ceil(a, b) == IF a % b = 0 THEN a \div b ELSE (a \div b) + 1

StatedFeePercent(p, L) ==
    Frac(30000 + 10000 * Max(1, Ceil(p * L, 1000)) + 3 * (p * L), 100 * (p * L))

StatedPass(p, L) == FracBelowOne(StatedFeePercent(p, L))

LotCounts == 1..(LotsStop - 1)

LotsReturnedMY ==
    /\ lot_pc = "returned"
    /\ EndsWith(lot_ticker, DotKL)
    /\ lot_result # None

NoLotPasses == \A L \in LotCounts : ~StatedPass(lot_price, L)

\* C1 (as stated): for a .KL ticker, when no L in 1..99 has feePercent(L) < 1.0
\* the sizer returns lots = 1, cost = p*100 and the fee percentage computed at L = 1.
C1_FallbackFeeComputedAtOne ==
    (LotsReturnedMY /\ NoLotPasses) =>
        /\ lot_result[1].lots = 1
        /\ lot_result[1].cost = lot_price
        /\ FracEq(lot_result[1].fee_pct, StatedFeePercent(lot_price, 1))

\* C1 (amended): for a .KL ticker, when no L in 1..99 has feePercent(L) < 1.0
\* the sizer returns lots = 1, cost = p*100 and the constant fee percentage 100.
C1_FallbackFeeIsHundred ==
    (LotsReturnedMY /\ NoLotPasses) =>
        /\ lot_result[1].lots = 1
        /\ lot_result[1].cost = lot_price
        /\ FracEq(lot_result[1].fee_pct, Frac(100, 1))

C1_Witness ==
    /\ LotsReturnedMY /\ NoLotPasses
    /\ lot_price = 4
    /\ lot_result[1].lots = 1

\* C2: for a .KL ticker, when some L in 1..99 has feePercent(L) < 1.0 the sizer
\* returns the smallest such L with cost = p*100*L and feePercent as stated at
\* that L; a price of 10.00 gives L = 1, cost 1000.00 and feePercent 0.43.
C2_SmallestPassingLot ==
    LotsReturnedMY =>
        /\ (~NoLotPasses) =>
              /\ lot_result[1].lots \in LotCounts
              /\ StatedPass(lot_price, lot_result[1].lots)
              /\ \A L \in 1..(lot_result[1].lots - 1) : ~StatedPass(lot_price, L)
              /\ lot_result[1].cost = lot_price * lot_result[1].lots
              /\ FracEq(lot_result[1].fee_pct,
                        StatedFeePercent(lot_price, lot_result[1].lots))
        /\ (lot_price = 1000) =>
              /\ lot_result[1].lots = 1
              /\ lot_result[1].cost = 1000
              /\ FracEq(lot_result[1].fee_pct, Frac(43, 100))

C2_Witness ==
    /\ LotsReturnedMY
    /\ lot_price = 10
    /\ lot_result[1].lots = 42
    /\ StatedPass(10, 99)

\* the 1% test the scan applies at lot count L
ScanPass(p, L) == FracBelowOne(FeePercentage(TotalValue(p, L)))

\* C9: for every price of the grid the lot counts in 1..99 that pass the 1% test are
\* upward-closed, so the lot count the scan returns is a threshold: every smaller
\* lot count fails the test and every larger one passes it.
C9_PassingLotsUpwardClosed ==
    LotsReturnedMY =>
        /\ \A L \in LotCounts : \A L2 \in (L + 1)..(LotsStop - 1) :
              ScanPass(lot_price, L) => ScanPass(lot_price, L2)
        /\ FracBelowOne(lot_result[1].fee_pct) =>
              /\ \A L \in 1..(lot_result[1].lots - 1) : ~ScanPass(lot_price, L)
              /\ \A L \in lot_result[1].lots..(LotsStop - 1) : ScanPass(lot_price, L)

C9_Witness ==
    /\ LotsReturnedMY
    /\ lot_price = 100
    /\ lot_result[1].lots = 5
    /\ ~ScanPass(100, 4)
    /\ ScanPass(100, 11)

-----------------------------------------------------------------------------
(* The verdict engine and the target message *)

VerdictReturned == v_pc \in {"verdict", "message"}

\* C4: every snapshot with sma50 <= sma200 gets AVOID_SELL with target 0,
\* whatever rsi, price and volumeStrong are.
C4_BearIsAvoidSell ==
    (VerdictReturned /\ v_snap[1].sma50 <= v_snap[1].sma200) =>
        /\ v_out[1].category = AVOID_SELL
        /\ v_out[1].target_price = 0

C4_Witness ==
    /\ VerdictReturned
    /\ v_snap[1].sma50 <= v_snap[1].sma200
    /\ v_snap[1].price > v_snap[1].sma200
    /\ v_snap[1].rsi < RsiLow
    /\ v_out[1].category = AVOID_SELL

\* C5: with sma50 > sma200, price > sma200 and 55 <= rsi <= 70 the category is
\* BUY_HIGH_MOMENTUM when volumeStrong and BUY_ACCUMULATE otherwise, the target is
\* the price, and for price > 0 the message is "buy now"; the snapshot
\* (105, 100, 108, 60, false) gives BUY_ACCUMULATE, 108, "buy now".
C5_MomentumBand ==
    /\ (/\ VerdictReturned
        /\ v_snap[1].sma50 > v_snap[1].sma200
        /\ v_snap[1].price > v_snap[1].sma200
        /\ RsiLow <= v_snap[1].rsi
        /\ v_snap[1].rsi <= RsiHigh) =>
           /\ v_out[1].category =
                 IF v_snap[1].volume_strong THEN BUY_HIGH_MOMENTUM ELSE BUY_ACCUMULATE
           /\ v_out[1].target_price = v_snap[1].price
           /\ (v_pc = "message" /\ v_snap[1].price > 0) => v_msg[1].kind = BUY_NOW
    /\ (v_pc = "message" /\ v_snap[1] = ExampleSnapshot) =>
           /\ v_out[1].category = BUY_ACCUMULATE
           /\ v_out[1].target_price = 108
           /\ v_msg[1].kind = BUY_NOW

C5_Witness ==
    /\ v_pc = "message"
    /\ v_snap[1] = ExampleSnapshot
    /\ v_msg[1].kind = BUY_NOW

\* C6: the target message is "wait" with discount (price - target)/price*100 exactly
\* when target > 0 and price > target, "buy now" exactly when target > 0 and
\* price <= target, and "no entry" exactly when target is not > 0.
C6_TargetMessageThreeWay ==
    (v_pc = "message") =>
        LET price == v_snap[1].price
            target == v_out[1].target_price
            msg == v_msg[1]
        IN  /\ msg.kind \in {WAIT, BUY_NOW, NO_ENTRY}
            /\ (msg.kind = WAIT) <=> (target > 0 /\ price > target)
            /\ (msg.kind = WAIT) =>
                  /\ msg.args.discount.den # 0
                  /\ msg.args.discount.num * price =
                        (price - target) * 100 * msg.args.discount.den
            /\ (msg.kind = BUY_NOW) <=> (target > 0 /\ price <= target)
            /\ (msg.kind = NO_ENTRY) <=> ~(target > 0)

C6_Witness ==
    /\ v_pc = "message"
    /\ v_snap[1].price = v_out[1].target_price
    /\ v_snap[1].price > 0
    /\ v_msg[1].kind = BUY_NOW

\* C10: for snapshots with price, sma50 and sma200 all > 0, the message is
\* "no entry" iff the category is AVOID_SELL, "wait" occurs only for
\* HOLD_OVERHEATED with price > sma50, and CAUTION_TREND_TESTING always gives
\* "buy now".
C10_VerdictMessageComposition ==
    (/\ v_pc = "message"
     /\ v_snap[1].price > 0 /\ v_snap[1].sma50 > 0 /\ v_snap[1].sma200 > 0) =>
        /\ (v_msg[1].kind = NO_ENTRY) <=> (v_out[1].category = AVOID_SELL)
        /\ (v_msg[1].kind = WAIT) =>
              /\ v_out[1].category = HOLD_OVERHEATED
              /\ v_snap[1].price > v_snap[1].sma50
        /\ (v_out[1].category = CAUTION_TREND_TESTING) =>
              /\ v_snap[1].sma50 > v_snap[1].sma200
              /\ v_snap[1].price <= v_snap[1].sma200
              /\ v_msg[1].kind = BUY_NOW

C10_Witness ==
    /\ v_pc = "message"
    /\ v_snap[1].price > 0 /\ v_snap[1].sma200 > 0
    /\ v_out[1].category = CAUTION_TREND_TESTING
    /\ v_msg[1].kind = BUY_NOW

-----------------------------------------------------------------------------
(* The pipeline of main() *)

\* the first loop has processed every configured ticker
LoopDone == pc \in {"report", "done"}

\* ticker i was fetched with a non-empty series of at least 200 bars
Analysable(i) ==
    /\ inputs[i].frame # None
    /\ inputs[i].frame[1].len # 0
    /\ inputs[i].frame[1].len >= MinBars

\* the position in the report of the record of an analysable ticker i
PositionOf(i) == Cardinality({k \in 1..i : Analysable(k)})

\* the latest row the provider gave for ticker i
RowOf(i) == inputs[i].frame[1].latest[1]

\* C3 (as stated): no lot sizer result with feePercent >= 1.0 is printed as a
\* fee-efficient "Buy N Lots ... keeps fee impact low" suggestion.
C3_FallbackNotSuggested ==
    \A j \in 1..Len(printed) :
        (/\ portfolio_analysis[j].smart_lots # None
         /\ ~FracBelowOne(portfolio_analysis[j].smart_lots[1].fee_pct)) =>
            \/ printed[j].suggestion = None
            \/ printed[j].suggestion[1].kind # BUY_LOTS

\* C7: the report has exactly one record per ticker whose fetched series is non-empty
\* with at least 200 bars and none for any other, in the order of the configured
\* list, and each record is determined by its own ticker's data alone, whatever
\* was skipped before it.
C7_ReportFollowsConfiguredOrder ==
    /\ LoopDone =>
          /\ Len(inputs) = Len(tickers)
          /\ Len(portfolio_analysis) =
                Cardinality({i \in 1..Len(tickers) : Analysable(i)})
          /\ \A i \in 1..Len(tickers) :
                Analysable(i) =>
                    LET rec == portfolio_analysis[PositionOf(i)]
                    IN  /\ rec.ticker = tickers[i]
                        /\ rec.price = RowOf(i).Close
                        /\ rec.rsi = RowOf(i).RSI
                        /\ rec.sma50 = RowOf(i).SMA_50
                        /\ rec.sma200 = RowOf(i).SMA_200
                        /\ rec.volume_strong =
                              (RowOf(i).Volume * 10 > RowOf(i).Vol_Avg * 12)
                        /\ [name |-> rec.name, div_yield |-> rec.div_yield,
                            currency |-> rec.currency] =
                              get_stock_info(tickers[i], inputs[i].lookup)
                        /\ rec.analysis =
                              generate_long_term_verdict(analyze_stock(inputs[i].frame[1])[1])
                        /\ rec.smart_lots = calculate_min_lots(RowOf(i).Close, tickers[i])
    /\ (pc = "done") =>
          /\ Len(printed) = Len(portfolio_analysis)
          /\ \A j \in 1..Len(printed) :
                /\ printed[j].ticker = portfolio_analysis[j].ticker
                /\ printed[j].category = portfolio_analysis[j].analysis.category

C7_Witness ==
    /\ pc = "done"
    /\ Len(tickers) = 2
    /\ inputs[1].frame[1].len = 150
    /\ Analysable(2)
    /\ Len(printed) = 1
    /\ printed[1].ticker = tickers[2]

\* the target message and the lot suggestion of a block: the message kind with its
\* discount, and the suggested lots with their cost and fee percentage
MessageOf(block) ==
    [kind |-> block.target_str.kind,
     discount |-> IF block.target_str.kind = WAIT
                  THEN Some(block.target_str.args.discount) ELSE None]

LotsOf(block) ==
    IF block.suggestion = None THEN None
    ELSE Some([kind |-> block.suggestion[1].kind, lots |-> block.suggestion[1].lots,
               cost |-> block.suggestion[1].cost,
               fee_pct |-> block.suggestion[1].fee_pct])

\* the record ticker i would have had, had its lookup answered with info
RecordWith(i, info) ==
    StatsAppended(tickers[i], get_stock_info(tickers[i], info),
                  analyze_stock(inputs[i].frame[1])[1], <<>>)[1]

====
